---- MODULE Spec2Model ----
(***************************************************************************)
(* AI recipe recommender: ai_processing.py (credential resolution, the two *)
(* AI calls, the video stub) and streamlit_app.py (the script Streamlit    *)
(* re-runs top to bottom on every user interaction).                       *)
(*                                                                         *)
(* Text is a sequence of tokens.  A token is one character (BT, " " for    *)
(* any whitespace character, "x" for any other character) or one atomic    *)
(* word or phrase the code looks for or produces as a whole: the fence     *)
(* language tags "python" and "json", the word "Error", the sentinel       *)
(* phrase, a message, a complete JSON document.                            *)
(***************************************************************************)
EXTENDS Integers, Sequences, FiniteSets

VARIABLES
    secrets,          \* state of st.secrets for GEMINI_API_KEY
    env,              \* state of os.environ for GEMINI_API_KEY
    uploaded_file,    \* the file_uploader widget holds a file
    recipe_data,      \* st.session_state.recipe_data
    video_url,        \* st.session_state.video_url
    narration_script, \* st.session_state.narration_script
    view,             \* what the last script run did and rendered
    call,             \* the last direct call of a function of ai_processing
    cur,              \* response cleanup: the current text
    prev,             \* response cleanup: the text before the last cleanup
    applied,          \* response cleanup: number of cleanups applied
    tag               \* response cleanup: the language tag of the cleanup used

vars == <<secrets, env, uploaded_file, recipe_data, video_url, narration_script,
          view, call, cur, prev, applied, tag>>

appVars == <<uploaded_file, recipe_data, video_url, narration_script, view>>
cleanVars == <<cur, prev, applied, tag>>

----------------------------------------------------------------------------
(* Bounds *)

MaxLen == 5

MaxApplications == 2

----------------------------------------------------------------------------
(* Python values *)

None == "None"

EmptyStr == ""

\* Python truthiness of None, a str, or a parsed JSON value
Truthy(v) == v \notin {None, EmptyStr, "{}"}

----------------------------------------------------------------------------
(* Literals of the source *)

SENTINEL == "FAILURE: NO FOOD DETECTED"

ERROR_WORD == "Error"

\* one backtick character
BT == "bt"

Fence == <<BT, BT, BT>>

MSG_KEY_MISSING == <<ERROR_WORD, ": Gemini API key is missing from Streamlit secrets.">>

MSG_CLIENT_INIT == <<ERROR_WORD, ": AI client failed to initialize with key.">>

MSG_API_CALL == <<ERROR_WORD, " during API call: ", "{e}">>

JSON_NOT_INITIALIZED == "{\"error\": \"AI client not initialized.\"}"

JSON_CLIENT_INIT == "{\"error\": \"AI client failed to initialize with key.\"}"

JSON_NO_FOOD == "{\"error\": \"Ingredient identification failed. No food was detected in the image.\"}"

JSON_API_ERROR == "{\"error\": \"Recipe generation failed due to API error.\"}"

VIDEO_URL == "https://www.youtube.com/watch?v=kY3NfQGz29Q"

NO_SCRIPT == "No script generated."

----------------------------------------------------------------------------
(* str operations *)

WS == " "

RECURSIVE LStrip(_)
LStrip(s) == IF s # <<>> /\ Head(s) = WS THEN LStrip(Tail(s)) ELSE s

RECURSIVE RStrip(_)
RStrip(s) ==
    IF s # <<>> /\ s[Len(s)] = WS THEN RStrip(SubSeq(s, 1, Len(s) - 1)) ELSE s

\* str.strip(): leading and trailing whitespace removed
Strip(s) == RStrip(LStrip(s))

\* str.replace(old, ""): every non-overlapping occurrence of old, found from
\* the left, is removed
RECURSIVE Replace(_, _)
Replace(s, old) ==
    IF Len(s) < Len(old) THEN s
    ELSE IF SubSeq(s, 1, Len(old)) = old
         THEN Replace(SubSeq(s, Len(old) + 1, Len(s)), old)
         ELSE <<Head(s)>> \o Replace(Tail(s), old)

\* pat in s, for a word or phrase pat
In(pat, s) == \E i \in 1..Len(s) : s[i] = pat

\* response.text.strip().replace("```<tag>", "").replace("```", "")
Cleanup(text, lang) ==
    Replace(Replace(Strip(text), Fence \o <<lang>>), Fence)

----------------------------------------------------------------------------
(* Credential resolution *)

SecretStates == {"no_secrets_file", "no_entry", "empty", "set"}

EnvStates == {"unset", "empty", "set"}

SECRET_KEY == "key from st.secrets"

ENV_KEY == "key from os.environ"

\* st.secrets['GEMINI_API_KEY']: raises when there is no secrets file or no
\* such entry, else yields the stored value
SecretsLookup(store) ==
    [raised |-> store \in {"no_secrets_file", "no_entry"},
     value |-> CASE store = "set" -> SECRET_KEY
                 [] store = "empty" -> EmptyStr
                 [] OTHER -> None]

\* os.getenv('GEMINI_API_KEY')
Getenv(e) ==
    CASE e = "set" -> ENV_KEY
      [] e = "empty" -> EmptyStr
      [] OTHER -> None

get_gemini_api_key(store, e) ==
    LET r == SecretsLookup(store)
    IN IF ~r.raised
       THEN IF Truthy(r.value) THEN r.value ELSE None
       ELSE IF Truthy(Getenv(e)) THEN Getenv(e) ELSE None

----------------------------------------------------------------------------
(* The AI service, as the functions see it *)

\* genai.Client(api_key=...) returns a client (TRUE) or raises (FALSE)
ClientOutcomes == BOOLEAN

\* uploaded_file.getvalue() and types.Part.from_bytes(...) return (TRUE) or
\* raise (FALSE)
PartOutcomes == BOOLEAN

\* client.models.generate_content(...) raises, or returns a response whose
\* .text is None, or returns a response with a text
Replies(texts) ==
    {[kind |-> "raise", text |-> <<>>], [kind |-> "no_text", text |-> <<>>]}
        \cup {[kind |-> "text", text |-> t] : t \in texts}

INGREDIENT_LIST == "['2 eggs', '1 cup flour']"

\* texts the model may answer the ingredient prompt with
IdentifyTexts ==
    {<<INGREDIENT_LIST>>,
     Fence \o <<"python", WS, INGREDIENT_LIST, WS>> \o Fence,
     <<SENTINEL>>,
     Fence \o <<WS, SENTINEL, WS>> \o Fence,
     <<"x", ERROR_WORD, "x">>,
     <<WS, WS>>,
     Fence \o Fence,
     <<>>}

Result(raised, value, net) == [raised |-> raised, value |-> value, net |-> net]

\* identify_ingredients without the guard on a missing key
identify_ingredients_no_key_check(store, e, clientOk, partOk, reply) ==
    IF ~clientOk THEN Result(FALSE, MSG_CLIENT_INIT, 0)
    ELSE IF ~partOk THEN Result(TRUE, <<>>, 0)
    ELSE IF reply.kind = "text"
         THEN Result(FALSE, Cleanup(reply.text, "python"), 1)
         ELSE Result(FALSE, MSG_API_CALL, 1)

\* value: the string returned; raised: an exception left the function;
\* net: calls of client.models.generate_content
identify_ingredients(store, e, clientOk, partOk, reply) ==
    LET api_key == get_gemini_api_key(store, e)
    IN IF ~Truthy(api_key) THEN Result(FALSE, MSG_KEY_MISSING, 0)
       ELSE IF ~clientOk THEN Result(FALSE, MSG_CLIENT_INIT, 0)
       ELSE IF ~partOk THEN Result(TRUE, <<>>, 0)
       ELSE IF reply.kind = "text"
            THEN Result(FALSE, Cleanup(reply.text, "python"), 1)
            ELSE Result(FALSE, MSG_API_CALL, 1)

\* generate_recipe without the check for the sentinel phrase
generate_recipe_no_sentinel_check(store, e, clientOk, ingredient_list_str, reply) ==
    LET api_key == get_gemini_api_key(store, e)
    IN IF ~Truthy(api_key) THEN Result(FALSE, <<JSON_NOT_INITIALIZED>>, 0)
       ELSE IF ~clientOk THEN Result(FALSE, <<JSON_CLIENT_INIT>>, 0)
       ELSE IF reply.kind = "text"
            THEN Result(FALSE, Cleanup(reply.text, "json"), 1)
            ELSE Result(FALSE, <<JSON_API_ERROR>>, 1)

generate_recipe(store, e, clientOk, ingredient_list_str, reply) ==
    LET api_key == get_gemini_api_key(store, e)
    IN IF ~Truthy(api_key) THEN Result(FALSE, <<JSON_NOT_INITIALIZED>>, 0)
       ELSE IF ~clientOk THEN Result(FALSE, <<JSON_CLIENT_INIT>>, 0)
       ELSE IF In(SENTINEL, ingredient_list_str)
            THEN Result(FALSE, <<JSON_NO_FOOD>>, 0)
       ELSE IF reply.kind = "text"
            THEN Result(FALSE, Cleanup(reply.text, "json"), 1)
            ELSE Result(FALSE, <<JSON_API_ERROR>>, 1)

generate_recipe_video(recipe_title, script) == VIDEO_URL

----------------------------------------------------------------------------
(* JSON *)

RECIPE_A == "{recipe A: all seven keys}"

RECIPE_B == "{recipe B: all seven keys}"

RECIPE_NO_SCRIPT == "{recipe C: no narration_script key}"

ErrorDocs == {JSON_NOT_INITIALIZED, JSON_CLIENT_INIT, JSON_NO_FOOD, JSON_API_ERROR}

\* the complete JSON documents of the model: objects, an array, null
JsonDocs == {RECIPE_A, RECIPE_B, RECIPE_NO_SCRIPT, "{}", "[1]", "null"} \cup ErrorDocs

RecipeKeys ==
    {"title", "description", "cuisine", "prep_time_minutes", "ingredients_used",
     "instructions", "narration_script"}

\* a parsed JSON value is named by its document; null parses to None
IsDict(v) == v \in {RECIPE_A, RECIPE_B, RECIPE_NO_SCRIPT, "{}"} \cup ErrorDocs

Keys(v) ==
    CASE v \in {RECIPE_A, RECIPE_B} -> RecipeKeys
      [] v = RECIPE_NO_SCRIPT -> RecipeKeys \ {"narration_script"}
      [] v \in ErrorDocs -> {"error"}
      [] OTHER -> {}

\* dict.get(key, default)
Get(v, key, default) ==
    IF key \notin Keys(v) THEN default
    ELSE CASE v = RECIPE_A -> key \o " of recipe A"
           [] v = RECIPE_B -> key \o " of recipe B"
           [] v = RECIPE_NO_SCRIPT -> key \o " of recipe C"
           [] OTHER -> key \o " of " \o v

\* json.loads(s): whitespace around one document is accepted; anything else
\* raises json.JSONDecodeError
json_loads(s) ==
    LET t == Strip(s)
    IN IF Len(t) = 1 /\ t[1] \in JsonDocs
       THEN [ok |-> TRUE, value |-> IF t[1] = "null" THEN None ELSE t[1]]
       ELSE [ok |-> FALSE, value |-> None]

\* texts the model may answer the recipe prompt with
RecipeTexts ==
    {<<RECIPE_A>>,
     Fence \o <<"json", WS, RECIPE_B, WS>> \o Fence,
     Fence \o <<"python", WS, RECIPE_A, WS>> \o Fence,
     <<RECIPE_NO_SCRIPT>>,
     <<"x", "x", WS, RECIPE_A>>,
     <<"{}">>, <<"[1]">>, <<"null">>,
     <<>>}

----------------------------------------------------------------------------
(* streamlit_app.py: one run of the script *)

ERR_NO_FOOD == "Ingredient identification failed. No discernible food items were detected in your image."

ERR_TECHNICAL == "A technical error occurred during ingredient identification."

ERR_PARSE == "Error: Could not parse the recipe. The AI did not return a valid JSON structure."

WARN_UPLOAD == "Please upload an image before generating a recipe."

Session(rd, vu, ns) == [recipe_data |-> rd, video_url |-> vu, narration_script |-> ns]

\* a step of the AI service that the run never reaches
Unasked == [kind |-> "unasked", text |-> <<>>]

\* what the AI service does during one run, step by step in the order the code
\* reaches the steps; a step behind a failed one is never reached
Oracles ==
    {o \in [idClient : ClientOutcomes, part : PartOutcomes,
            idReply : Replies(IdentifyTexts) \cup {Unasked},
            genClient : ClientOutcomes,
            genReply : Replies(RecipeTexts) \cup {Unasked}] :
        /\ ~o.idClient => o.part
        /\ (o.idReply = Unasked) <=> ~(o.idClient /\ o.part)
        /\ o.idReply.kind # "text" => o.genClient /\ o.genReply = Unasked
        /\ ~o.genClient => o.genReply = Unasked
        /\ (o.idReply.kind = "text" /\ o.genClient) => o.genReply # Unasked}

NoView ==
    [trigger |-> "load", hadFile |-> FALSE, identifyCalls |-> 0, generateCalls |-> 0,
     netCalls |-> 0, report |-> <<>>, recipe_json_str |-> <<>>, outcome |-> "skipped",
     messages |-> {}, recipeShown |-> None, videoButton |-> FALSE,
     videoShown |-> FALSE, crashed |-> FALSE]

\* the chain without its elif on "Error"
Branch_no_error_check(ingredient_list_str) ==
    IF ingredient_list_str # <<>> /\ In(SENTINEL, ingredient_list_str) THEN "nofood"
    ELSE IF ingredient_list_str # <<>> THEN "generate"
    ELSE "empty"

\* the if / elif / elif chain on ingredient_list_str
Branch(ingredient_list_str) ==
    IF ingredient_list_str # <<>> /\ In(SENTINEL, ingredient_list_str) THEN "nofood"
    ELSE IF In(ERROR_WORD, ingredient_list_str) THEN "error"
    ELSE IF ingredient_list_str # <<>> THEN "generate"
    ELSE "empty"

\* the try / except json.JSONDecodeError around json.loads: ss is the session
\* state, v the view so far
ParseRecipe(ss, v, recipe_json_str) ==
    LET p == json_loads(recipe_json_str)
        v1 == [v EXCEPT !.recipe_json_str = recipe_json_str]
    IN IF ~p.ok
       THEN [ss |-> [ss EXCEPT !.recipe_data = None],
             view |-> [v1 EXCEPT !.outcome = "parse_failure",
                                 !.messages = @ \cup {ERR_PARSE}]]
       ELSE IF ~IsDict(p.value)
       THEN \* recipe_data.get raises AttributeError after the assignment
            [ss |-> [ss EXCEPT !.recipe_data = p.value],
             view |-> [v1 EXCEPT !.outcome = "parsed_not_object", !.crashed = TRUE]]
       ELSE [ss |-> [ss EXCEPT !.recipe_data = p.value,
                               !.narration_script =
                                   Get(p.value, "narration_script", NO_SCRIPT)],
             view |-> [v1 EXCEPT !.outcome = "parsed"]]

\* section A, entered when generate_button and uploaded_file is not None
RecipeGeneration(ss, v, store, e, o) ==
    LET r1 == identify_ingredients(store, e, o.idClient, o.part, o.idReply)
        v1 == [v EXCEPT !.identifyCalls = @ + 1, !.netCalls = @ + r1.net,
                        !.report = r1.value]
        b == Branch(r1.value)
    IN IF r1.raised
       THEN [ss |-> ss, view |-> [v1 EXCEPT !.outcome = "exception", !.crashed = TRUE]]
       ELSE CASE b = "nofood" ->
                 [ss |-> [ss EXCEPT !.recipe_data = None],
                  view |-> [v1 EXCEPT !.outcome = "nofood",
                                      !.messages = @ \cup {ERR_NO_FOOD}]]
              [] b = "error" ->
                 [ss |-> [ss EXCEPT !.recipe_data = None],
                  view |-> [v1 EXCEPT !.outcome = "error",
                                      !.messages = @ \cup {ERR_TECHNICAL}]]
              [] b = "generate" ->
                 LET r2 == generate_recipe(store, e, o.genClient, r1.value, o.genReply)
                 IN ParseRecipe(ss,
                                [v1 EXCEPT !.generateCalls = @ + 1,
                                           !.netCalls = @ + r2.net],
                                r2.value)
              [] OTHER ->
                 [ss |-> ss, view |-> [v1 EXCEPT !.outcome = "empty"]]

\* section B: the recipe, the video button and the video
Display(ss, v, generate_button, video_button) ==
    IF Truthy(ss.recipe_data)
    THEN IF ~IsDict(ss.recipe_data)
         THEN \* data.get raises AttributeError
              [ss |-> ss, view |-> [v EXCEPT !.crashed = TRUE]]
         ELSE LET url == IF video_button
                         THEN generate_recipe_video(
                                  Get(ss.recipe_data, "title", None),
                                  ss.narration_script)
                         ELSE ss.video_url
              IN [ss |-> [ss EXCEPT !.video_url = url],
                  view |-> [v EXCEPT !.recipeShown = ss.recipe_data,
                                     !.videoButton = TRUE,
                                     !.videoShown = Truthy(url)]]
    ELSE IF generate_button
    THEN [ss |-> ss, view |-> [v EXCEPT !.messages = @ \cup {WARN_UPLOAD}]]
    ELSE [ss |-> ss, view |-> v]

\* the whole script, top to bottom; an unhandled exception ends the run
ScriptRun(ss, file, trigger, store, e, o) ==
    LET generate_button == (trigger = "generate")
        video_button == (trigger = "video")
        v0 == [NoView EXCEPT !.trigger = trigger, !.hadFile = file]
        a == IF generate_button /\ file
             THEN RecipeGeneration(ss, v0, store, e, o)
             ELSE [ss |-> ss, view |-> v0]
    IN IF a.view.crashed THEN a
       ELSE Display(a.ss, a.view, generate_button, video_button)

----------------------------------------------------------------------------
(* The application: user interactions, each followed by one script run *)

NoCall ==
    [fn |-> "none", input |-> <<>>, clientOk |-> TRUE, partOk |-> TRUE,
     reply |-> "none", raised |-> FALSE, value |-> <<>>, key |-> None, net |-> 0]

\* a run that does not reach section A consults the AI service nowhere
Idle ==
    [idClient |-> TRUE, part |-> TRUE, idReply |-> Unasked,
     genClient |-> TRUE, genReply |-> Unasked]

Rerun(file, trigger, o) ==
    \E r \in {ScriptRun(Session(recipe_data, video_url, narration_script),
                        file, trigger, secrets, env, o)} :
       /\ uploaded_file' = file
       /\ recipe_data' = r.ss.recipe_data
       /\ video_url' = r.ss.video_url
       /\ narration_script' = r.ss.narration_script
       /\ view' = r.view
       /\ UNCHANGED <<secrets, env, call, cleanVars>>

\* session state as the first run of the script leaves it
AppStart ==
    /\ uploaded_file = FALSE
    /\ recipe_data = None
    /\ video_url = None
    /\ narration_script = None
    /\ view = NoView

HarnessIdle ==
    /\ call = NoCall
    /\ cur = <<>>
    /\ prev = <<>>
    /\ applied = 0
    /\ tag = "python"

Init ==
    /\ secrets \in SecretStates
    /\ env \in EnvStates
    /\ AppStart
    /\ HarnessIdle

Upload == ~uploaded_file /\ Rerun(TRUE, "widget", Idle)

RemoveUpload == uploaded_file /\ Rerun(FALSE, "widget", Idle)

\* a sidebar widget (cuisine, prep time, dietary filters) changes
ChangeConstraint == Rerun(uploaded_file, "widget", Idle)

ClickGenerate == \E o \in Oracles : Rerun(uploaded_file, "generate", o)

\* the video button exists only where the last run rendered it
ClickVideo == view.videoButton /\ Rerun(uploaded_file, "video", Idle)

Next ==
    \/ Upload
    \/ RemoveUpload
    \/ ChangeConstraint
    \/ ClickGenerate
    \/ ClickVideo

Spec == Init /\ [][Next]_vars

----------------------------------------------------------------------------
(* The functions of ai_processing.py called directly *)

\* ingredient texts generate_recipe may be handed
IngredientTexts ==
    {Cleanup(t, "python") : t \in IdentifyTexts}
        \cup {MSG_KEY_MISSING, MSG_CLIENT_INIT, MSG_API_CALL,
              <<"x", SENTINEL, "x">>}

CallGetKey ==
    /\ call' = [NoCall EXCEPT !.fn = "get_gemini_api_key",
                              !.key = get_gemini_api_key(secrets, env)]
    /\ UNCHANGED <<secrets, env, appVars, cleanVars>>

CallIdentify ==
    \E c \in ClientOutcomes, p \in PartOutcomes, reply \in Replies(IdentifyTexts) :
        \E r \in {identify_ingredients(secrets, env, c, p, reply)} :
           /\ call' = [NoCall EXCEPT !.fn = "identify_ingredients",
                                     !.clientOk = c, !.partOk = p,
                                     !.reply = reply.kind, !.raised = r.raised,
                                     !.value = r.value, !.net = r.net]
           /\ UNCHANGED <<secrets, env, appVars, cleanVars>>

CallGenerate ==
    \E text \in IngredientTexts, c \in ClientOutcomes, reply \in Replies(RecipeTexts) :
        \E r \in {generate_recipe(secrets, env, c, text, reply)} :
           /\ call' = [NoCall EXCEPT !.fn = "generate_recipe", !.input = text,
                                     !.clientOk = c, !.reply = reply.kind,
                                     !.raised = r.raised, !.value = r.value,
                                     !.net = r.net]
           /\ UNCHANGED <<secrets, env, appVars, cleanVars>>

NextFn ==
    \/ CallGetKey
    \/ CallIdentify
    \/ CallGenerate

SpecFn == Init /\ [][NextFn]_vars

----------------------------------------------------------------------------
(* The response cleanup applied repeatedly to one text *)

CleanAlphabet == {BT, "python", "json", WS, "x"}

Texts(n) == UNION {[1..k -> CleanAlphabet] : k \in 0..n}

InitClean ==
    /\ secrets = "set"
    /\ env = "unset"
    /\ AppStart
    /\ call = NoCall
    /\ tag \in {"python", "json"}
    /\ cur \in Texts(MaxLen)
    /\ prev = cur
    /\ applied = 0

ApplyCleanup ==
    /\ applied < MaxApplications
    /\ prev' = cur
    /\ cur' = Cleanup(cur, tag)
    /\ applied' = applied + 1
    /\ UNCHANGED <<secrets, env, appVars, call, tag>>

NextClean == ApplyCleanup

SpecClean == InitClean /\ [][NextClean]_vars

----------------------------------------------------------------------------
(* Properties *)

\* s is the text of a JSON object whose only key is "error"
IsErrorObject(s) ==
    LET p == json_loads(s)
    IN p.ok /\ IsDict(p.value) /\ Keys(p.value) = {"error"}

BeginsWith(s, word) == s # <<>> /\ Head(s) = word

SecretUsable == secrets = "set"

EnvUsable == env = "set"

\* C1: every call of generate_recipe whose ingredient text contains the
\* sentinel phrase returns a JSON object with the single key "error" and makes
\* no call of generate_content, whatever the credential state and whatever
\* the outcome of the client construction.
C1_SentinelNoNetwork ==
    (call.fn = "generate_recipe" /\ In(SENTINEL, call.input))
        => (~call.raised /\ IsErrorObject(call.value) /\ call.net = 0)

\* C1 witness: a sentinel call with a resolved key and a constructed client,
\* answered by the sentinel check itself.
C1_Witness ==
    /\ call.fn = "generate_recipe"
    /\ In(SENTINEL, call.input)
    /\ SecretUsable
    /\ call.clientOk
    /\ call.reply = "text"
    /\ call.value = <<JSON_NO_FOOD>>

\* C2: generate_recipe called with the sentinel string returns exactly the
\* "no food was detected" error object, whatever the outcome of credential
\* resolution and client construction (the sentinel is checked first).
C2_SentinelCheckedFirst ==
    (call.fn = "generate_recipe" /\ call.input = <<SENTINEL>>)
        => call.value = <<JSON_NO_FOOD>>

\* C3: when neither source holds a key, identify_ingredients returns a string
\* containing "Error" and generate_recipe returns a JSON error object, both
\* without raising and without a call of generate_content.
C3_MissingCredential ==
    (~SecretUsable /\ ~EnvUsable) =>
        /\ call.fn = "identify_ingredients"
              => (~call.raised /\ In(ERROR_WORD, call.value) /\ call.net = 0)
        /\ call.fn = "generate_recipe"
              => (~call.raised /\ IsErrorObject(call.value) /\ call.net = 0)

\* C3 witness: identify_ingredients called without a credential while every
\* later step would have succeeded.
C3_Witness ==
    /\ ~SecretUsable
    /\ ~EnvUsable
    /\ call.fn = "identify_ingredients"
    /\ call.clientOk
    /\ call.partOk
    /\ call.reply = "text"
    /\ call.value = MSG_KEY_MISSING

\* C4: a failure of the AI client at any step (client construction, building
\* the image part, generate_content, reading the response text) never leaves
\* identify_ingredients or generate_recipe as an exception: the first returns
\* a string beginning with "Error", the second a JSON error object.
C4_FailureNeverRaised ==
    LET failed == ~call.clientOk \/ ~call.partOk \/ call.reply \in {"raise", "no_text"}
    IN /\ (call.fn = "identify_ingredients" /\ failed)
              => (~call.raised /\ BeginsWith(call.value, ERROR_WORD))
       /\ (call.fn = "generate_recipe" /\ failed)
              => (~call.raised /\ IsErrorObject(call.value))

\* C5: get_gemini_api_key returns None only when neither source holds a
\* non-empty key, and returns the environment key whenever the secret store
\* yields no usable key (missing, empty or raising) and the environment
\* variable holds one.
C5_EnvironmentFallback ==
    call.fn = "get_gemini_api_key" =>
        /\ (call.key = None) <=> (~SecretUsable /\ ~EnvUsable)
        /\ (~SecretUsable /\ EnvUsable) => call.key = ENV_KEY

\* the string is not valid JSON, or parses but lacks a required recipe key
Malformed(s) ==
    LET p == json_loads(s)
    IN ~p.ok \/ ~IsDict(p.value) \/ ~(RecipeKeys \subseteq Keys(p.value))

\* C6: whenever the string returned by generate_recipe is malformed (not
\* valid JSON, or JSON without the required recipe keys), the run reports an
\* error, leaves recipe_data None and displays no recipe.
C6_MalformedOutputDetected ==
    (view.generateCalls = 1 /\ Malformed(view.recipe_json_str))
        => /\ view.messages \cap {ERR_PARSE, ERR_NO_FOOD, ERR_TECHNICAL} # {}
           /\ recipe_data = None
           /\ view.recipeShown = None

\* C7: the response cleanup is idempotent: applied a second time it leaves
\* the text it produced the first time unchanged.
C7_CleanupIdempotent == applied >= 2 => cur = prev

\* C8: within one run identify_ingredients and generate_recipe are each
\* called at most once; generate_recipe only after identify_ingredients
\* returned a non-empty text containing neither the sentinel nor "Error";
\* neither is called when no file is uploaded or the run is not a
\* Generate Recipe click.
C8_LinearNoRetry ==
    /\ view.identifyCalls <= 1
    /\ view.generateCalls <= 1
    /\ view.generateCalls = 1 =>
          /\ view.identifyCalls = 1
          /\ view.report # <<>>
          /\ ~In(SENTINEL, view.report)
          /\ ~In(ERROR_WORD, view.report)
    /\ (view.trigger # "generate" \/ ~view.hadFile) =>
          (view.identifyCalls = 0 /\ view.generateCalls = 0 /\ view.netCalls = 0)

\* C8 witness: a run in which both functions were called and both reached
\* the AI service.
C8_Witness ==
    /\ view.trigger = "generate"
    /\ view.identifyCalls = 1
    /\ view.generateCalls = 1
    /\ view.netCalls = 2

\* C9: a Generate Recipe run with an uploaded file whose pipeline ends in the
\* sentinel, an "Error" string, an empty ingredient text or a JSON parse
\* failure leaves recipe_data None and displays no recipe.
C9_FailedClickClearsRecipe ==
    (/\ view.trigger = "generate"
     /\ view.hadFile
     /\ view.outcome \in {"nofood", "error", "empty", "parse_failure"})
        => (recipe_data = None /\ view.recipeShown = None)

\* C10: the run that generates a recipe renders it without a video: a video
\* appears only after the video button is clicked for that recipe.
C10_NewRecipeWithoutVideo ==
    (/\ view.trigger = "generate"
     /\ view.outcome = "parsed"
     /\ view.recipeShown # None)
        => ~view.videoShown

====
